---- MODULE Spec2Model ----
(***************************************************************************)
(* A model of Vec<T> (src/vec/vec.h), the bounds-checked wrapper over      *)
(* std::vector<T>, and of the pattern functions used by Vec::with.         *)
(*                                                                         *)
(* The wrapped std::vector is modelled by its element sequence `self` and  *)
(* its capacity `cap`.  Positions (iterators) are 0-based offsets from     *)
(* begin(); only valid positions are passed, an invalid iterator being     *)
(* undefined behaviour of std::vector.  `ret` records the last call: its   *)
(* name, its arguments, how it ended and what it returned; a call the      *)
(* compiler rejects ends "ill_formed" and runs nothing.  `other` is a      *)
(* second container of the same type, `T` the element type and `nops` the  *)
(* number of calls made so far.  Capacities follow libc++, the library     *)
(* whose iterator traits the repository's concepts header names.           *)
(***************************************************************************)
EXTENDS Integers, Sequences, FiniteSets, TLC

VARIABLES T, self, cap, other, ocap, ret, nops

vars == <<T, self, cap, other, ocap, ret, nops>>

----------------------------------------------------------------------------
(* Bounds of the model *)

\* max_size() of the modelled std::vector
MaxSize == 4
\* width in bits of the integer element type
IntBits == 8
\* number of calls made on the container in one run
MaxOps == 3

\* element values the client supplies
Seeds == {1, 2}

ElemTypes == {"int", "double"}

\* the contents of the second container
Others == {<<>>, <<1>>, <<2, 1>>}

Counts == 0..(MaxSize + 1)

\* the literal lists and traversal ranges the client supplies
Lists == {<<>>, <<1>>, <<2, 1>>, <<1, 2, 2>>}

----------------------------------------------------------------------------
(* Element types and conversions *)

\* std::numeric_limits<U>::is_integer
IsInteger(U) == U = "int"

\* two's complement value of x in IntBits bits
Wrap(x) ==
    LET half == 2 ^ (IntBits - 1)
    IN ((x + half) % (2 ^ IntBits)) - half

\* conversion of a value to type ty; a double holds every value met here exactly
Convert(x, ty) == IF IsInteger(ty) THEN Wrap(x) ELSE x

\* T(), the value-initialised element
DefaultVal == 0

----------------------------------------------------------------------------
(* namespace pattern *)

Incr(val, by, U) == Convert(val + by, U)

Decr(val, by, U) == Convert(val - by, U)

Mult(val, by, U) == Convert(val * by, U)

Patterns == { [f |-> "Incr", by |-> 1], [f |-> "Decr", by |-> 1],
              [f |-> "Mult", by |-> 2], [f |-> "Mult", by |-> 5] }

\* a call pat(val) through a Pattern<U>: the argument is converted to const U&
Apply(pat, val, U) ==
    LET x == Convert(val, U)
    IN CASE pat.f = "Incr" -> Incr(x, pat.by, U)
         [] pat.f = "Decr" -> Decr(x, pat.by, U)
         [] pat.f = "Mult" -> Mult(x, pat.by, U)

----------------------------------------------------------------------------
(* The call record *)

Ok == "ok"
NoSuchElement == "NoSuchElement"
IndexOutOfBounds == "IndexOutOfBounds"
LengthError == "length_error"
OutOfRange == "out_of_range"
IllFormed == "ill_formed"

Call(op, arg, kind, val) == [op |-> op, arg |-> arg, kind |-> kind, val |-> val]

Step == nops < MaxOps /\ nops' = nops + 1

Frame == UNCHANGED <<T, other, ocap>>

Same == UNCHANGED <<self, cap>>

----------------------------------------------------------------------------
(* The wrapped std::vector<T> *)

\* the capacity a reallocation for new_size elements chooses, from capacity c
Recommend(c, new_size) ==
    IF c >= MaxSize \div 2 THEN MaxSize
    ELSE IF 2 * c > new_size THEN 2 * c ELSE new_size

\* the capacity after making room for need elements
GrowTo(c, need) == IF need <= c THEN c ELSE Recommend(c, need)

\* s with the elements xs inserted before position at
InsertAt(s, at, xs) == SubSeq(s, 1, at) \o xs \o SubSeq(s, at + 1, Len(s))

\* s without the positions [b, e)
EraseRange(s, b, e) == SubSeq(s, 1, b) \o SubSeq(s, e + 1, Len(s))

\* n copies of v
Copies(n, v) == [k \in 1..n |-> v]

\* std::vector::at
VectorAt(s, i) ==
    IF i >= Len(s) THEN [kind |-> OutOfRange, val |-> <<>>]
    ELSE [kind |-> Ok, val |-> <<s[i + 1]>>]

----------------------------------------------------------------------------
(* Construction *)

\* Vec()
Default ==
    /\ Step /\ Frame
    /\ self' = <<>> /\ cap' = 0
    /\ ret' = Call("Vec", <<>>, Ok, <<>>)

\* the elements Vec::from(begin, end) and Vec::from(list) build from a source
FromElems(src) == src

\* Vec::from(begin, end)
FromRange(src) ==
    /\ Step /\ Frame
    /\ self' = FromElems(src) /\ cap' = Len(src)
    /\ ret' = Call("from_range", src, Ok, <<>>)

\* Vec::from(const Vec&)
FromVec ==
    /\ Step /\ Frame
    /\ self' = other /\ cap' = Len(other)
    /\ ret' = Call("from_vec", <<>>, Ok, <<>>)

\* Vec::from(initializer_list), Vec(initializer_list)
FromList(list) ==
    /\ Step /\ Frame
    /\ self' = FromElems(list) /\ cap' = Len(list)
    /\ ret' = Call("from_list", list, Ok, <<>>)

\* of dropping default_val
OfDefault(n, v) == Copies(n, DefaultVal)

\* the elements Vec::of(n, default_val) builds
OfElems(n, v) == Copies(n, v)

\* Vec::of(n, default_val)
Of(n, v) ==
    /\ Step /\ Frame
    /\ IF n > MaxSize
       THEN Same /\ ret' = Call("of", <<n, v>>, LengthError, <<>>)
       ELSE /\ self' = OfElems(n, v) /\ cap' = n
            /\ ret' = Call("of", <<n, v>>, Ok, <<>>)

----------------------------------------------------------------------------
(* Checked access *)

\* at without its own check, leaving the index to std::vector::at
AtUnchecked(s, i) == VectorAt(s, i)

AtResult(s, i) ==
    IF i >= Len(s) THEN [kind |-> IndexOutOfBounds, val |-> <<>>]
    ELSE VectorAt(s, i)

\* Vec::at(i)
At(i) ==
    /\ Step /\ Frame /\ Same
    /\ LET r == AtResult(self, i) IN ret' = Call("at", <<i>>, r.kind, r.val)

\* operator[] with its check written i > size
IndexOffByOne(s, i) ==
    IF i > Len(s) THEN [kind |-> IndexOutOfBounds, val |-> <<>>]
    ELSE VectorAt(s, i)

IndexResult(s, i) ==
    IF i >= Len(s) THEN [kind |-> IndexOutOfBounds, val |-> <<>>]
    ELSE VectorAt(s, i)

\* operator[] reserving room for index i before it checks i
IndexCapReserves(c, i) == IF i + 1 > c THEN i + 1 ELSE c

\* the capacity operator[] leaves
IndexCap(c, i) == c

\* Vec::operator[](i)
Index(i) ==
    /\ Step /\ Frame
    /\ self' = self /\ cap' = IndexCap(cap, i)
    /\ LET r == IndexResult(self, i) IN ret' = Call("index", <<i>>, r.kind, r.val)

PeekFrontResult(s) ==
    IF Len(s) = 0 THEN [kind |-> NoSuchElement, val |-> <<>>]
    ELSE [kind |-> Ok, val |-> <<s[1]>>]

\* Vec::peek_front()
PeekFront ==
    /\ Step /\ Frame /\ Same
    /\ LET r == PeekFrontResult(self) IN ret' = Call("peek_front", <<>>, r.kind, r.val)

\* peek_back answering with front()
PeekBackFront(s) ==
    IF Len(s) = 0 THEN [kind |-> NoSuchElement, val |-> <<>>]
    ELSE [kind |-> Ok, val |-> <<s[1]>>]

PeekBackResult(s) ==
    IF Len(s) = 0 THEN [kind |-> NoSuchElement, val |-> <<>>]
    ELSE [kind |-> Ok, val |-> <<s[Len(s)]>>]

\* Vec::peek_back()
PeekBack ==
    /\ Step /\ Frame /\ Same
    /\ LET r == PeekBackResult(self) IN ret' = Call("peek_back", <<>>, r.kind, r.val)

\* pop_back peeking after it has popped
PopBackPeeksLate(s) ==
    IF Len(s) = 0 THEN [elems |-> s, kind |-> Ok, val |-> <<>>]
    ELSE LET t == SubSeq(s, 1, Len(s) - 1)
             r == PeekBackResult(t)
         IN [elems |-> t, kind |-> r.kind, val |-> r.val]

\* what pop_back leaves and returns: [elems, kind, val]
PopBackResult(s) ==
    IF Len(s) = 0 THEN [elems |-> s, kind |-> Ok, val |-> <<>>]
    ELSE LET r == PeekBackResult(s)
         IN [elems |-> SubSeq(s, 1, Len(s) - 1), kind |-> r.kind, val |-> r.val]

\* Vec::pop_back()
PopBack ==
    /\ Step /\ Frame
    /\ LET r == PopBackResult(self)
       IN /\ self' = r.elems /\ cap' = cap
          /\ ret' = Call("pop_back", <<>>, r.kind, r.val)

----------------------------------------------------------------------------
(* Growth *)

\* an insertion of xs before position at: [elems, cap, kind]
InsertResult(s, c, at, xs) ==
    IF Len(s) + Len(xs) > c /\ Len(s) + Len(xs) > MaxSize
    THEN [elems |-> s, cap |-> c, kind |-> LengthError]
    ELSE [elems |-> InsertAt(s, at, xs), cap |-> GrowTo(c, Len(s) + Len(xs)), kind |-> Ok]

Inserting(op, at, xs) ==
    /\ Step /\ Frame
    /\ LET r == InsertResult(self, cap, at, xs)
       IN /\ self' = r.elems /\ cap' = r.cap
          /\ ret' = Call(op, <<>>, r.kind, IF r.kind = Ok THEN <<at>> ELSE <<>>)

\* Vec::push_back(val)
PushBack(v) ==
    /\ Step /\ Frame
    /\ LET r == InsertResult(self, cap, Len(self), <<v>>)
       IN /\ self' = r.elems /\ cap' = r.cap
          /\ ret' = Call("push_back", <<>>, r.kind, <<>>)

\* Vec::emplace_back(args...)
EmplaceBack(v) ==
    /\ Step /\ Frame
    /\ LET r == InsertResult(self, cap, Len(self), <<v>>)
       IN /\ self' = r.elems /\ cap' = r.cap
          /\ ret' = Call("emplace_back", <<>>, r.kind, <<>>)

\* Vec::emplace(at, args...)
Emplace(at, v) == Inserting("emplace", at, <<v>>)

\* Vec::insert(at, val)
Insert(at, v) == Inserting("insert", at, <<v>>)

\* Vec::fill(at, n, val)
Fill(at, n, v) == Inserting("fill", at, Copies(n, v))

\* Vec::insert_list(at, list)
InsertList(at, list) == Inserting("insert_list", at, list)

\* Vec::insert_range(at, begin, end)
InsertRange(at, src) == Inserting("insert_range", at, src)

\* an assignment of xs: [elems, cap, kind]
AssignResult(s, c, xs) ==
    IF Len(xs) <= c THEN [elems |-> xs, cap |-> c, kind |-> Ok]
    ELSE IF Len(xs) > MaxSize THEN [elems |-> s, cap |-> c, kind |-> LengthError]
    ELSE [elems |-> xs, cap |-> Recommend(0, Len(xs)), kind |-> Ok]

Assigning(op, xs) ==
    /\ Step /\ Frame
    /\ LET r == AssignResult(self, cap, xs)
       IN /\ self' = r.elems /\ cap' = r.cap
          /\ ret' = Call(op, <<>>, r.kind, <<>>)

\* Vec::reassign(Iterator begin, Iterator end), the range [b, e) of the other container
ReassignRange(b, e) == Assigning("reassign_range", SubSeq(other, b + 1, e))

\* Vec::reassign(initializer_list)
ReassignList(list) == Assigning("reassign_list", list)

\* does std::vector<T>::assign take the argument a Vec<T> passes it?
AssignTakes(argType) == argType \in {"initializer_list", "iterators", "count_value"}

\* Vec::reassign(const Vec&): self.assign(other.self)
ReassignVec ==
    /\ Step /\ Frame
    /\ IF AssignTakes("vector")
       THEN LET r == AssignResult(self, cap, other)
            IN /\ self' = r.elems /\ cap' = r.cap
               /\ ret' = Call("reassign_vec", <<>>, r.kind, <<>>)
       ELSE Same /\ ret' = Call("reassign_vec", <<>>, IllFormed, <<>>)

\* a resize to n elements padded with v: [elems, cap, kind]
ResizeResult(s, c, n, v) ==
    IF n <= Len(s) THEN [elems |-> SubSeq(s, 1, n), cap |-> c, kind |-> Ok]
    ELSE InsertResult(s, c, Len(s), Copies(n - Len(s), v))

\* Vec::resize(n)
Resize(n) ==
    /\ Step /\ Frame
    /\ LET r == ResizeResult(self, cap, n, DefaultVal)
       IN /\ self' = r.elems /\ cap' = r.cap
          /\ ret' = Call("resize", <<n>>, r.kind, <<>>)

\* Vec::resize(n, val)
ResizeVal(n, v) ==
    /\ Step /\ Frame
    /\ LET r == ResizeResult(self, cap, n, v)
       IN /\ self' = r.elems /\ cap' = r.cap
          /\ ret' = Call("resize_val", <<n>>, r.kind, <<>>)

\* a reserve of n: [cap, kind]
ReserveResult(c, n) ==
    IF n <= c THEN [cap |-> c, kind |-> Ok]
    ELSE IF n > MaxSize THEN [cap |-> c, kind |-> LengthError]
    ELSE [cap |-> n, kind |-> Ok]

\* Vec::request_cap(n)
RequestCap(n) ==
    /\ Step /\ Frame
    /\ LET r == ReserveResult(cap, n)
       IN /\ self' = self /\ cap' = r.cap
          /\ ret' = Call("request_cap", <<n>>, r.kind, <<>>)

----------------------------------------------------------------------------
(* Shrinking *)

\* Vec::remove(at)
Remove(at) ==
    /\ Step /\ Frame
    /\ self' = EraseRange(self, at, at + 1) /\ cap' = cap
    /\ ret' = Call("remove", <<>>, Ok, <<at>>)

\* Vec::remove_range(begin, end)
RemoveRange(b, e) ==
    /\ Step /\ Frame
    /\ self' = EraseRange(self, b, e) /\ cap' = cap
    /\ ret' = Call("remove_range", <<>>, Ok, <<b>>)

\* Vec::clear()
Clear ==
    /\ Step /\ Frame
    /\ self' = <<>> /\ cap' = cap
    /\ ret' = Call("clear", <<>>, Ok, <<>>)

\* shrink releasing the whole buffer
ShrinkToNothing(n, c) == {0}

\* the capacities shrink_to_fit may leave: the fit, or the old one when the
\* reallocation fails
ShrinkCaps(n, c) == {n, c}

\* Vec::shrink()
Shrink ==
    /\ Step /\ Frame
    /\ self' = self /\ cap' \in ShrinkCaps(Len(self), cap)
    /\ ret' = Call("shrink", <<>>, Ok, <<>>)

\* does std::vector<T>::swap take the argument a Vec<T> passes it?
SwapTakes(argType) == argType = "vector"

\* Vec::swap(Vec& other): self.swap(other)
Swap ==
    /\ Step /\ UNCHANGED T
    /\ IF SwapTakes("Vec")
       THEN /\ self' = other /\ cap' = ocap /\ other' = self /\ ocap' = cap
            /\ ret' = Call("swap", <<>>, Ok, <<>>)
       ELSE /\ Same /\ UNCHANGED <<other, ocap>>
            /\ ret' = Call("swap", <<>>, IllFormed, <<>>)

----------------------------------------------------------------------------
(* Vec::with *)

\* the requires clause of with<U>
WithAccepts(elemType, U) == IsInteger(U)

\* the loop of with, from 1-based index i on
RECURSIVE WithFrom(_, _, _, _, _)
WithFrom(s, i, pat, U, elemType) ==
    IF i > Len(s) THEN s
    ELSE WithFrom([s EXCEPT ![i] = Convert(Apply(pat, s[i - 1], U), elemType)],
                  i + 1, pat, U, elemType)

\* with reading the element before it as it was before the call
WithMap(s, pat, U, elemType) ==
    [i \in 1..Len(s) |->
        IF i = 1 THEN s[1] ELSE Convert(Apply(pat, s[i - 1], U), elemType)]

WithScan(s, pat, U, elemType) == WithFrom(s, 2, pat, U, elemType)

\* Vec::with<U>(pat)
With(U, pat) ==
    /\ Step /\ Frame
    /\ IF WithAccepts(T, U)
       THEN /\ self' = WithScan(self, pat, U, T) /\ cap' = cap
            /\ ret' = Call("with", <<U, pat>>, Ok, self')
       ELSE Same /\ ret' = Call("with", <<U, pat>>, IllFormed, <<>>)

----------------------------------------------------------------------------
(* The specification *)

Init ==
    /\ T \in ElemTypes
    /\ self = <<>> /\ cap = 0
    /\ other \in Others /\ ocap = Len(other)
    /\ ret = Call("Vec", <<>>, Ok, <<>>)
    /\ nops = 0

Next ==
    \/ Default
    \/ \E src \in Lists : FromRange(src)
    \/ FromVec
    \/ \E list \in Lists : FromList(list)
    \/ \E n \in Counts, v \in Seeds : Of(n, v)
    \/ \E i \in Counts : At(i)
    \/ \E i \in Counts : Index(i)
    \/ PeekBack
    \/ PeekFront
    \/ PopBack
    \/ \E v \in Seeds : PushBack(v)
    \/ \E v \in Seeds : EmplaceBack(v)
    \/ \E at \in 0..Len(self), v \in Seeds : Emplace(at, v)
    \/ \E at \in 0..Len(self), v \in Seeds : Insert(at, v)
    \/ \E at \in 0..Len(self), n \in Counts, v \in Seeds : Fill(at, n, v)
    \/ \E at \in 0..Len(self), list \in Lists : InsertList(at, list)
    \/ \E at \in 0..Len(self), src \in Lists : InsertRange(at, src)
    \/ \E b \in 0..Len(other) : \E e \in b..Len(other) : ReassignRange(b, e)
    \/ \E list \in Lists : ReassignList(list)
    \/ ReassignVec
    \/ \E n \in Counts : Resize(n)
    \/ \E n \in Counts, v \in Seeds : ResizeVal(n, v)
    \/ \E n \in Counts : RequestCap(n)
    \/ \E at \in 0..(Len(self) - 1) : Remove(at)
    \/ \E b \in 0..Len(self) : \E e \in b..Len(self) : RemoveRange(b, e)
    \/ Clear
    \/ Shrink
    \/ Swap
    \/ \E U \in ElemTypes, pat \in Patterns : With(U, pat)

Spec == Init /\ [][Next]_vars

----------------------------------------------------------------------------
(* Properties *)

Accessors == {"at", "index", "peek_front", "peek_back"}

Growers == {"of", "push_back", "emplace_back", "emplace", "insert", "fill",
            "insert_list", "insert_range", "reassign_range", "reassign_list",
            "resize", "resize_val", "request_cap"}

CountTakers == {"of", "resize", "resize_val", "request_cap"}

\* C1: at(i) and operator[](i) behave alike: with i >= size, i == size
\* included, both fail with IndexOutOfBounds; with i < size both return the
\* element at index i and do not fail.
C1_AtIndexAgree ==
    ret.op \in {"at", "index"} =>
        LET i == ret.arg[1]
        IN /\ i >= Len(self) => ret.kind = IndexOutOfBounds /\ ret.val = <<>>
           /\ i < Len(self) => ret.kind = Ok /\ ret.val = <<self[i + 1]>>

\* operator[] was called with i == size on a container that holds elements
C1_Witness ==
    /\ ret.op = "index" /\ Len(self) > 0 /\ ret.arg[1] = Len(self)
    /\ ret.kind = IndexOutOfBounds

\* C2: peek_front and peek_back fail with NoSuchElement exactly when the
\* container is empty; otherwise they return the element at index 0 and at
\* index size-1, and the size after the call is the size before it.
C2_Peek ==
    [][ret'.op \in {"peek_front", "peek_back"} =>
        /\ ret'.kind = (IF Len(self) = 0 THEN NoSuchElement ELSE Ok)
        /\ Len(self) > 0 =>
             ret'.val = <<self[IF ret'.op = "peek_front" THEN 1 ELSE Len(self)]>>
        /\ Len(self') = Len(self)]_vars

\* peek_back returned the last of several elements, which differs from the first
C2_Witness ==
    /\ ret.op = "peek_back" /\ ret.kind = Ok /\ Len(self) >= 2
    /\ self[1] # self[Len(self)] /\ ret.val = <<self[Len(self)]>>

C4_FailureFrame ==
    [][ret'.op \in Accessors /\ ret'.kind # Ok =>
        self' = self /\ cap' = cap /\ other' = other /\ ocap' = ocap]_vars

\* operator[] failed on a container that holds elements
C4_Witness ==
    ret.op = "index" /\ ret.kind = IndexOutOfBounds /\ Len(self) >= 2 /\ cap > Len(self)

C6_WithScan ==
    [][ret'.op = "with" /\ ret'.kind = Ok /\ IsInteger(T) =>
        LET U == ret'.arg[1]
            pat == ret'.arg[2]
        IN /\ Len(self') = Len(self)
           /\ Len(self) >= 1 => self'[1] = self[1]
           /\ \A i \in 2..Len(self) : self'[i] = Apply(pat, self'[i - 1], U)
           /\ ret'.val = self'
           /\ Len(self) <= 1 => self' = self
           /\ self = <<1, 1, 1, 1>> /\ pat = [f |-> "Incr", by |-> 1] =>
                self' = <<1, 2, 3, 4>>
           /\ self = <<1, 1, 1, 1>> /\ pat = [f |-> "Mult", by |-> 5] =>
                self' = <<1, 5, 25, 125>>]_vars

\* of(4,1).with(Mult by 5) has run
C6_Witness ==
    /\ ret.op = "with" /\ ret.kind = Ok /\ IsInteger(T)
    /\ ret.arg[2] = [f |-> "Mult", by |-> 5] /\ self = <<1, 5, 25, 125>>

\* C7: with is rejected at compile time whenever the element type T is not an
\* integer type, whatever the pattern's value type.
C7_NonIntegerRejected ==
    ret.op = "with" /\ ~IsInteger(T) => ret.kind = IllFormed

\* C8: a.swap(b) leaves a with what b held and b with what a held.
C8_SwapExchanges ==
    [][ret'.op = "swap" =>
        self' = other /\ other' = self]_vars

\* C9: 0 <= size() <= cap() in every reachable state, and shrink() never
\* makes cap() larger.
C9_SizeWithinCap ==
    /\ [](0 <= Len(self) /\ Len(self) <= cap /\ Len(other) <= ocap)
    /\ [][ret'.op = "shrink" => cap' <= cap]_vars

\* shrink has run, after two earlier calls, on a container that holds elements,
\* and the capacity fits the size
C9_Witness == ret.op = "shrink" /\ Len(self) >= 1 /\ cap = Len(self) /\ nops >= 3

====
